---- MODULE Spec2Model ----
\* Model of delta's entry point (src/src/mainfn.rs): mainfn and run_app,
\* together with the asynchronous delivery of ctrl-c (SIGINT) to the process.
EXTENDS Integers, Sequences, FiniteSets, TLC

VARIABLES
    opt,            \* parsed command line / config (input of the run)
    pc,             \* position of the main thread in mainfn / run_app
    proc,           \* "running" | "exited" | "killed" | "panicked" | "returned_err"
    handler,        \* "unset" | "installed" | "failed" : outcome of ctrlc::set_handler
    pagerAlive,     \* a pager process created by OutputType::from_mode exists
    stderr,         \* sequence of message tags printed with eprintln!/fatal
    runAppResult,   \* value returned by run_app (tag "none" until it returns)
    retVal,         \* value of the return expression run_app is returning with
    sinkResult,     \* result of the subcommand / show_config call
    deltaResult,    \* result of the stdin pipeline call delta(...)
    diffCode,       \* exit code returned by subcommands::diff::diff (-1: not called)
    deltaCalls,     \* number of calls of delta(...)
    diffCalls,      \* number of calls of subcommands::diff::diff
    stdinReads,     \* number of times io::stdin() was locked for reading
    exitCalls,      \* number of calls of process::exit
    exitSite,       \* "none" | "mainfn" | "fatal" : where process::exit was called
    exitCode,       \* code given to process::exit (-1: none)
    sigints         \* number of SIGINTs delivered so far

vars == <<opt, pc, proc, handler, pagerAlive, stderr, runAppResult, retVal, sinkResult,
          deltaResult, diffCode, deltaCalls, diffCalls, stdinReads, exitCalls,
          exitSite, exitCode, sigints>>

\* ---------------------------------------------------------------- bounds
MaxSigint == 2

\* ---------------------------------------------------------------- values
\* config.error_exit_code: "2 is used to report a real problem"
ErrorExitCode == 2

ErrorKinds == {"BrokenPipe", "UnexpectedEof", "InvalidData", "Other"}

NoResult == [tag |-> "none", code |-> 0, kind |-> ""]
Ok(c)    == [tag |-> "Ok", code |-> c, kind |-> ""]
Err(k)   == [tag |-> "Err", code |-> 0, kind |-> k]

\* std::io::Result<()> values an I/O call can produce
IoResults == {Ok(0)} \cup {Err(k) : k \in ErrorKinds}

\* exit codes subcommands::diff::diff can return (0 same, 1 differ, 2 error)
DiffExitCodes == {0, 1, ErrorExitCode}

Opts == [list_languages : BOOLEAN, list_syntax_themes : BOOLEAN,
         show_syntax_themes : BOOLEAN, show_themes : BOOLEAN,
         show_colors : BOOLEAN, parse_ansi : BOOLEAN,
         show_config : BOOLEAN, minus_file : BOOLEAN, plus_file : BOOLEAN,
         paging : BOOLEAN]

\* ---------------------------------------------------------------- run_app, pure parts

\* The if / else-if chain choosing the subcommand.
SubcommandSelected(o) ==
    IF o.list_languages THEN "list_languages"
    ELSE IF o.list_syntax_themes THEN "list_syntax_themes"
    ELSE IF o.show_syntax_themes THEN "show_syntax_themes"
    ELSE IF o.show_themes THEN "show_themes"
    ELSE IF o.show_colors THEN "show_colors"
    ELSE IF o.parse_ansi THEN "parse_ansi"
    ELSE "none"

\* if let Err(error) = result { match error.kind() { BrokenPipe => {}, _ => fatal(..) } } return Ok(0)
SubcommandResultHandling(res) ==
    IF res.tag = "Err" /\ res.kind # "BrokenPipe" THEN "fatal" ELSE "return_ok0"

\* subcommands::show_config::show_config(&config, &mut stdout)?; return Ok(0)
ShowConfigOutcome(res) ==
    IF res.tag = "Err" THEN Err(res.kind) ELSE Ok(0)

FilesBranchBothToStdin(minus, plus) ==
    IF minus = plus THEN "stdin" ELSE "usage"

\* match (config.minus_file.as_ref(), config.plus_file.as_ref())
FilesBranch(minus, plus) ==
    IF ~minus /\ ~plus THEN "stdin"
    ELSE IF minus /\ plus THEN "diff"
    ELSE "usage"

DeltaResultHandlingReportsBrokenPipe(res) ==
    IF res.tag = "Err" THEN [code |-> 0, report |-> TRUE]
    ELSE [code |-> 0, report |-> FALSE]

\* if let Err(error) = delta(..) { match error.kind() { BrokenPipe => return Ok(0),
\*                                                      _ => eprintln!(..) } }; Ok(0)
DeltaResultHandling(res) ==
    IF res.tag = "Err"
    THEN IF res.kind = "BrokenPipe"
         THEN [code |-> 0, report |-> FALSE]
         ELSE [code |-> 0, report |-> TRUE]
    ELSE [code |-> 0, report |-> FALSE]

CtrlcHandlerTerminates(p) == "killed"

\* The closure given to ctrlc::set_handler: || {}  (SIGINT is swallowed).
CtrlcHandler(p) == p

\* ---------------------------------------------------------------- initial state
Init ==
    /\ opt \in Opts
    /\ pc = "start"
    /\ proc = "running"
    /\ handler = "unset"
    /\ pagerAlive = FALSE
    /\ stderr = <<>>
    /\ runAppResult = NoResult
    /\ retVal = NoResult
    /\ sinkResult = NoResult
    /\ deltaResult = NoResult
    /\ diffCode = -1
    /\ deltaCalls = 0
    /\ diffCalls = 0
    /\ stdinReads = 0
    /\ exitCalls = 0
    /\ exitSite = "none"
    /\ exitCode = -1
    /\ sigints = 0

\* ---------------------------------------------------------------- mainfn

\* utils::process::start_determining_calling_process_in_thread()
StartDeterminingCallingProcess ==
    /\ proc = "running" /\ pc = "start"
    /\ pc' = "set_handler"
    /\ UNCHANGED <<opt, proc, handler, pagerAlive, stderr, runAppResult, retVal, sinkResult,
                   deltaResult, diffCode, deltaCalls, diffCalls, stdinReads,
                   exitCalls, exitSite, exitCode, sigints>>

\* ctrlc::set_handler(|| {}).unwrap_or_else(|err| eprintln!("Failed to set ctrl-c handler ..."))
SetHandler ==
    /\ proc = "running" /\ pc = "set_handler"
    /\ \E ok \in BOOLEAN :
          /\ handler' = IF ok THEN "installed" ELSE "failed"
          /\ stderr' = IF ok THEN stderr ELSE Append(stderr, "handler_failed")
    /\ pc' = "run_app"
    /\ UNCHANGED <<opt, proc, pagerAlive, runAppResult, retVal, sinkResult,
                   deltaResult, diffCode, deltaCalls, diffCalls, stdinReads,
                   exitCalls, exitSite, exitCode, sigints>>

\* fatal(msg): reports the message and ends the program with the error exit code.
Fatal ==
    /\ stderr' = Append(stderr, "error")
    /\ proc' = "exited"
    /\ exitCalls' = exitCalls + 1
    /\ exitSite' = "fatal"
    /\ exitCode' = ErrorExitCode

\* ---------------------------------------------------------------- run_app

\* A subcommand flag is set: run it, handle its result, return Ok(0) (or fatal).
RunSubcommand ==
    /\ proc = "running" /\ pc = "run_app"
    /\ SubcommandSelected(opt) # "none"
    /\ \E res \in IoResults :
          /\ sinkResult' = res
          /\ IF SubcommandResultHandling(res) = "fatal"
             THEN /\ Fatal
                  /\ UNCHANGED <<pc, runAppResult, retVal>>
             ELSE /\ runAppResult' = Ok(0)
                  /\ retVal' = Ok(0)
                  /\ pc' = "returned"
                  /\ UNCHANGED <<stderr, proc, exitCalls, exitSite, exitCode>>
    /\ UNCHANGED <<opt, handler, pagerAlive, deltaResult, diffCode, deltaCalls,
                   diffCalls, stdinReads, sigints>>

\* No subcommand, show_config set: dump the config to stdout with `?`.
ShowConfig ==
    /\ proc = "running" /\ pc = "run_app"
    /\ SubcommandSelected(opt) = "none"
    /\ opt.show_config
    /\ \E res \in IoResults :
          /\ sinkResult' = res
          /\ runAppResult' = ShowConfigOutcome(res)
          /\ retVal' = ShowConfigOutcome(res)
    /\ pc' = "returned"
    /\ UNCHANGED <<opt, proc, handler, pagerAlive, stderr, deltaResult, diffCode,
                   deltaCalls, diffCalls, stdinReads, exitCalls, exitSite,
                   exitCode, sigints>>

\* OutputType::from_mode(..).unwrap(); output_type.handle().unwrap()
\* from_mode creates the pager (when paging); either unwrap can panic, the
\* second one with output_type already alive.
OpenOutput ==
    /\ proc = "running" /\ pc = "run_app"
    /\ SubcommandSelected(opt) = "none"
    /\ ~opt.show_config
    /\ \E outcome \in {"ok", "from_mode_err", "handle_err"} :
          CASE outcome = "ok" ->
                   /\ pagerAlive' = opt.paging
                   /\ pc' = "files"
                   /\ UNCHANGED proc
            [] outcome = "from_mode_err" ->
                   /\ proc' = "panicked"
                   /\ UNCHANGED <<pagerAlive, pc>>
            [] outcome = "handle_err" ->
                   /\ pagerAlive' = opt.paging
                   /\ pc' = "unwinding"
                   /\ UNCHANGED proc
    /\ UNCHANGED <<opt, handler, stderr, runAppResult, retVal, sinkResult, deltaResult,
                   diffCode, deltaCalls, diffCalls, stdinReads, exitCalls,
                   exitSite, exitCode, sigints>>

\* The panic of handle().unwrap() unwinds run_app: output_type is dropped
\* (the pager is waited for) and the process ends with the panic.
PanicUnwind ==
    /\ proc = "running" /\ pc = "unwinding"
    /\ pagerAlive' = FALSE
    /\ proc' = "panicked"
    /\ UNCHANGED <<opt, pc, handler, stderr, runAppResult, retVal, sinkResult,
                   deltaResult, diffCode, deltaCalls, diffCalls, stdinReads,
                   exitCalls, exitSite, exitCode, sigints>>

\* (Some(minus_file), Some(plus_file)) => subcommands::diff::diff(..) is entered;
\* it runs (writing to the pager) until DiffReturns.
CallDiff ==
    /\ proc = "running" /\ pc = "files"
    /\ FilesBranch(opt.minus_file, opt.plus_file) = "diff"
    /\ diffCalls' = diffCalls + 1
    /\ pc' = "in_diff"
    /\ UNCHANGED <<opt, proc, handler, pagerAlive, stderr, runAppResult, retVal,
                   sinkResult, deltaResult, diffCode, deltaCalls, stdinReads,
                   exitCalls, exitSite, exitCode, sigints>>

\* let exit_code = diff(..); return Ok(exit_code)  -- output_type still alive.
DiffReturns ==
    /\ proc = "running" /\ pc = "in_diff"
    /\ \E code \in DiffExitCodes :
          /\ diffCode' = code
          /\ retVal' = Ok(code)
    /\ pc' = "dropping"
    /\ UNCHANGED <<opt, proc, handler, pagerAlive, stderr, runAppResult, sinkResult,
                   deltaResult, deltaCalls, diffCalls, stdinReads, exitCalls,
                   exitSite, exitCode, sigints>>

\* exactly one file given: print the usage hint, return Ok(config.error_exit_code)
\* -- output_type still alive.
UsageError ==
    /\ proc = "running" /\ pc = "files"
    /\ FilesBranch(opt.minus_file, opt.plus_file) = "usage"
    /\ stderr' = Append(stderr, "usage")
    /\ retVal' = Ok(ErrorExitCode)
    /\ pc' = "dropping"
    /\ UNCHANGED <<opt, proc, handler, pagerAlive, runAppResult, sinkResult,
                   deltaResult, diffCode, deltaCalls, diffCalls, stdinReads,
                   exitCalls, exitSite, exitCode, sigints>>

\* (None, None) => {} : fall through to the stdin pipeline.
NoFiles ==
    /\ proc = "running" /\ pc = "files"
    /\ FilesBranch(opt.minus_file, opt.plus_file) = "stdin"
    /\ pc' = "delta"
    /\ UNCHANGED <<opt, proc, handler, pagerAlive, stderr, runAppResult, retVal,
                   sinkResult, deltaResult, diffCode, deltaCalls, diffCalls,
                   stdinReads, exitCalls, exitSite, exitCode, sigints>>

\* delta(io::stdin().lock().byte_lines(), &mut writer, &config) is entered:
\* stdin is locked and the pipeline runs (blocking on stdin) until DeltaReturns.
CallDelta ==
    /\ proc = "running" /\ pc = "delta"
    /\ deltaCalls' = deltaCalls + 1
    /\ stdinReads' = stdinReads + 1
    /\ pc' = "in_delta"
    /\ UNCHANGED <<opt, proc, handler, pagerAlive, stderr, runAppResult, retVal,
                   sinkResult, deltaResult, diffCode, diffCalls, exitCalls,
                   exitSite, exitCode, sigints>>

\* delta(..) returns; `if let Err(error)` / `match error.kind()` picks the branch:
\* BrokenPipe => return Ok(0); another kind goes on to eprintln!; Ok goes to Ok(0).
DeltaReturns ==
    /\ proc = "running" /\ pc = "in_delta"
    /\ \E res \in IoResults :
          /\ deltaResult' = res
          /\ IF DeltaResultHandling(res).report
             THEN /\ pc' = "delta_err"
                  /\ UNCHANGED retVal
             ELSE /\ pc' = "dropping"
                  /\ retVal' = Ok(DeltaResultHandling(res).code)
    /\ UNCHANGED <<opt, proc, handler, pagerAlive, stderr, runAppResult, sinkResult,
                   diffCode, deltaCalls, diffCalls, stdinReads, exitCalls,
                   exitSite, exitCode, sigints>>

\* _ => eprintln!("{}", error) ; then the final Ok(0) -- output_type still alive.
ReportDeltaError ==
    /\ proc = "running" /\ pc = "delta_err"
    /\ stderr' = Append(stderr, "error")
    /\ retVal' = Ok(DeltaResultHandling(deltaResult).code)
    /\ pc' = "dropping"
    /\ UNCHANGED <<opt, proc, handler, pagerAlive, runAppResult, sinkResult,
                   deltaResult, diffCode, deltaCalls, diffCalls, stdinReads,
                   exitCalls, exitSite, exitCode, sigints>>

\* run_app returns from below line 84: writer and output_type go out of scope
\* (the pager, if any, is waited for), then the caller receives the value.
DropOutput ==
    /\ proc = "running" /\ pc = "dropping"
    /\ pagerAlive' = FALSE
    /\ runAppResult' = retVal
    /\ pc' = "returned"
    /\ UNCHANGED <<opt, proc, handler, stderr, retVal, sinkResult, deltaResult,
                   diffCode, deltaCalls, diffCalls, stdinReads, exitCalls,
                   exitSite, exitCode, sigints>>

\* ---------------------------------------------------------------- mainfn, after run_app

\* let exit_code = run_app()?;  process::exit(exit_code)
MainfnExit ==
    /\ proc = "running" /\ pc = "returned"
    /\ runAppResult.tag = "Ok"
    /\ proc' = "exited"
    /\ exitCalls' = exitCalls + 1
    /\ exitSite' = "mainfn"
    /\ exitCode' = runAppResult.code
    /\ pc' = "done"
    /\ UNCHANGED <<opt, handler, pagerAlive, stderr, runAppResult, retVal, sinkResult,
                   deltaResult, diffCode, deltaCalls, diffCalls, stdinReads, sigints>>

\* run_app()? with an Err: mainfn returns the Err to its caller.
MainfnPropagateErr ==
    /\ proc = "running" /\ pc = "returned"
    /\ runAppResult.tag = "Err"
    /\ proc' = "returned_err"
    /\ pc' = "done"
    /\ UNCHANGED <<opt, handler, pagerAlive, stderr, runAppResult, retVal, sinkResult,
                   deltaResult, diffCode, deltaCalls, diffCalls, stdinReads,
                   exitCalls, exitSite, exitCode, sigints>>

\* ---------------------------------------------------------------- environment

\* ctrl-c arrives: swallowed by the installed handler, default action (terminate) otherwise.
Sigint ==
    /\ proc = "running"
    /\ sigints < MaxSigint
    /\ sigints' = sigints + 1
    /\ proc' = IF handler = "installed" THEN CtrlcHandler(proc) ELSE "killed"
    /\ UNCHANGED <<opt, pc, handler, pagerAlive, stderr, runAppResult, retVal, sinkResult,
                   deltaResult, diffCode, deltaCalls, diffCalls, stdinReads,
                   exitCalls, exitSite, exitCode>>

Next ==
    \/ StartDeterminingCallingProcess
    \/ SetHandler
    \/ RunSubcommand
    \/ ShowConfig
    \/ OpenOutput
    \/ PanicUnwind
    \/ CallDiff
    \/ DiffReturns
    \/ UsageError
    \/ NoFiles
    \/ CallDelta
    \/ DeltaReturns
    \/ ReportDeltaError
    \/ DropOutput
    \/ MainfnExit
    \/ MainfnPropagateErr
    \/ Sigint

Spec == Init /\ [][Next]_vars

\* ---------------------------------------------------------------- helpers for the properties
Reports(tag) == Cardinality({i \in 1..Len(stderr) : stderr[i] = tag})

\* ---------------------------------------------------------------- properties

\* C1: when delta(...) fails with kind BrokenPipe, run_app stops (it is
\* returning or has returned) with Ok(0); nothing is reported as an error, the
\* pipeline was invoked exactly once, and the process can only exit with code 0.
C1_BrokenPipeClosedEarly ==
    deltaResult = Err("BrokenPipe") =>
        /\ pc \in {"dropping", "returned", "done"}
        /\ retVal = Ok(0)
        /\ (pc \in {"returned", "done"} => runAppResult = Ok(0))
        /\ Reports("error") = 0
        /\ deltaCalls = 1
        /\ (proc = "exited" => exitSite = "mainfn" /\ exitCode = 0)
        /\ proc # "returned_err"

C1_Witness ==
    /\ deltaResult = Err("BrokenPipe")
    /\ proc = "exited"
    /\ exitCode = 0

\* C2 (as claimed): when delta(...) fails with a kind other than BrokenPipe,
\* the failure is reported exactly once and the program ends with a non-zero
\* exit code, different from normal completion and from the closed-sink outcome.
C2_OtherErrorNonZeroExit ==
    (deltaResult.tag = "Err" /\ deltaResult.kind # "BrokenPipe"
     /\ pc \in {"returned", "done"}) =>
        /\ Reports("error") = 1
        /\ runAppResult # Ok(0)
        /\ (proc = "exited" => exitCode # 0)

\* C3 (as claimed): no reachable state has delta killed by SIGINT while its
\* pager is still alive, whatever the outcome of installing the handler.
C3_NeverOrphanedPager ==
    ~(proc = "killed" /\ pagerAlive)

\* C3 (amended): once ctrlc::set_handler has succeeded SIGINT never terminates
\* delta; delta is killed by SIGINT with its pager alive only when installing
\* the handler failed.
C3_NoOrphanUnlessHandlerFailed ==
    /\ (handler = "installed" => proc # "killed")
    /\ ((proc = "killed" /\ pagerAlive) => handler = "failed")

C3_Witness ==
    /\ handler = "installed"
    /\ pagerAlive
    /\ sigints > 0
    /\ proc = "running"
    /\ pc \in {"in_delta", "in_diff", "dropping"}

\* C4 (as claimed): on the subcommand paths and the show_config dump, a sink
\* closed with BrokenPipe ends run_app with Ok(0); run_app never returns Err
\* and the program never ends with a non-zero code because of it.
C4_ClosedSinkIsSuccess ==
    sinkResult = Err("BrokenPipe") =>
        /\ runAppResult = Ok(0)
        /\ proc \notin {"returned_err", "panicked"}
        /\ (proc = "exited" => exitCode = 0)

\* C5 (as claimed): process::exit is called at most once, only in mainfn after
\* run_app returned Ok(code) and with that code; when run_app returns Err
\* process::exit is not called; no path inside run_app exits the process.
C5_ExitOnlyInMainfn ==
    /\ exitCalls <= 1
    /\ (exitCalls = 1 =>
            /\ exitSite = "mainfn"
            /\ runAppResult.tag = "Ok"
            /\ exitCode = runAppResult.code)
    /\ (runAppResult.tag = "Err" => exitCalls = 0)
    /\ (proc = "exited" => pc = "done")

\* C6 (as claimed): whenever both positional files are given, run_app has
\* invoked diff exactly once by the time it returns, returns Ok with exactly
\* the code diff returned, and never reads stdin or invokes the delta pipeline.
C6_TwoFilesAlwaysDiff ==
    (opt.minus_file /\ opt.plus_file /\ pc \in {"returned", "done"}) =>
        /\ diffCalls = 1
        /\ runAppResult = Ok(diffCode)
        /\ deltaCalls = 0
        /\ stdinReads = 0

\* C6 (amended): with both positional files given, stdin and the delta
\* pipeline are never used and diff is invoked at most once; when no
\* subcommand flag and not show_config is set, run_app has invoked diff
\* exactly once by the time it returns and returns Ok with exactly the code
\* diff returned; when a subcommand flag or show_config is set, diff is never
\* invoked (run_app returns before the file dispatch).
C6_TwoFilesDiffOnce ==
    (opt.minus_file /\ opt.plus_file) =>
        /\ deltaCalls = 0
        /\ stdinReads = 0
        /\ deltaResult = NoResult
        /\ diffCalls <= 1
        /\ (diffCode # -1 => diffCalls = 1 /\ diffCode \in DiffExitCodes
                             /\ retVal = Ok(diffCode))
        /\ ((SubcommandSelected(opt) = "none" /\ ~opt.show_config
             /\ pc \in {"returned", "done"})
               => diffCalls = 1 /\ runAppResult = Ok(diffCode))
        /\ ((SubcommandSelected(opt) # "none" \/ opt.show_config)
               => diffCalls = 0 /\ diffCode = -1)
        /\ (proc = "exited" /\ diffCalls = 1 => exitCode = diffCode)

C6_Witness ==
    /\ opt.minus_file /\ opt.plus_file
    /\ diffCalls = 1
    /\ proc = "exited"
    /\ exitCode = 1

\* Interleavings of SIGINT with the steps run_app takes while output_type is
\* alive: the kill can fall inside delta / diff, after the error or usage
\* message was printed, and while the pager is being released.
Reach_KilledInsideDelta ==
    proc = "killed" /\ pagerAlive /\ deltaCalls = 1 /\ deltaResult = NoResult

Reach_KilledAfterDeltaError ==
    /\ proc = "killed" /\ pagerAlive /\ deltaResult = Err("Other")
    /\ stderr = <<"handler_failed", "error">>

Reach_KilledAfterBrokenPipe ==
    /\ proc = "killed" /\ pagerAlive /\ deltaResult = Err("BrokenPipe")
    /\ stderr = <<"handler_failed">>

Reach_KilledInsideDiff ==
    proc = "killed" /\ pagerAlive /\ diffCalls = 1 /\ diffCode = -1

Reach_KilledAfterDiff ==
    proc = "killed" /\ pagerAlive /\ diffCalls = 1 /\ diffCode = 1

Reach_KilledAfterUsage ==
    proc = "killed" /\ pagerAlive /\ stderr = <<"handler_failed", "usage">>

====
